---- MODULE Spec2Model ----
(***************************************************************************)
(* Model of the generate-random crate: the GenerateRandom impls of         *)
(* src/lib/src/lib.rs and the code the derive macro emits for an enum      *)
(* (src/derive-macro/src/handle_enum.rs).                                  *)
(*                                                                         *)
(* A call generate_random(rng) is a pure function of the type and of the   *)
(* state of the caller's rng; it is modelled by the operator Gen, which    *)
(* returns the value, the rng state left behind and the ordered list of    *)
(* draws made.  The state machine is the caller: it derives the enum,      *)
(* owns the rng, calls the trait methods and keeps the outcome of the last *)
(* call.                                                                   *)
(***************************************************************************)
EXTENDS Integers, Sequences, FiniteSets

VARIABLES rng, decl, code, last, ref

vars == <<rng, decl, code, last, ref>>

----------------------------------------------------------------------------
(* Bounds of the model *)

\* the rng state has RngBits bits
RngBits == 3
\* an enum declares at most MaxVariants variants
MaxVariants == 3
\* a #[weight(..)] literal is at most MaxWeight
MaxWeight == 2

RngMod == 2 ^ RngBits

----------------------------------------------------------------------------
(* The randomness source: the caller's rand::Rng.  Its state is a number   *)
(* below RngMod; next_u32 and next_u64 return a word and step the state.   *)
(* The word returned in state s has s in its top RngBits bits and s again  *)
(* in its low bits, zeros between: s * 2^(W - RngBits) + s for a word of W *)
(* bits.  What rand makes of a word is written on s directly.              *)

\* one step of the generator (a full-period linear congruential step)
Step(s) == (5 * s + 3) % RngMod

RECURSIVE StepN(_, _)
\* the state k words after s
StepN(s, k) == IF k = 0 THEN s ELSE StepN(Step(s), k - 1)

\* A draw, one call of rng.gen or rng.gen_range: the value it returned to the
\* caller, as a number, with the state its first word was read from, the
\* number of words it took, the place (path) of the component that made it,
\* its kind and, for a range draw, the exclusive upper bound.
DrawRec(path, kind, bound, value, at, words) ==
    [path |-> path, kind |-> kind, bound |-> bound, value |-> value,
     at |-> at, words |-> words]

\* The outcome of a generation call: ok (FALSE: the call panicked), the value,
\* the rng state left, the draws made in order, and the number of times
\* generate_random_variant fell back to generate_random.
Outcome(ok, val, s, trace, fb) ==
    [ok |-> ok, val |-> val, rng |-> s, trace |-> trace, fb |-> fb]

Panic(s, trace, fb) == Outcome(FALSE, "panic", s, trace, fb)

RECURSIVE Log2(_)
\* the position of the highest bit of n >= 1
Log2(n) == IF n < 2 THEN 0 ELSE 1 + Log2(n \div 2)

\* UniformInt::sample_single on the word of state s, range n:
\*   zone = (n << n.leading_zeros()) - 1;  (hi, lo) = word.wmul(n);
\*   the word is taken if lo <= zone
\* lo is ((s * n) % RngMod) * 2^(W - RngBits) and zone + 1 is
\* n * 2^(W - 1 - Log2(n)); both sides are divided by 2^(W - RngBits - Log2(n))
Accepts(n, s) == ((s * n) % RngMod) * 2 ^ Log2(n) < n * 2 ^ (RngBits - 1)

RECURSIVE SampleSingle(_, _, _, _, _, _)
\* the loop of sample_single, entered at state s with words - 1 words
\* rejected since state s0: hi of the first word taken
SampleSingle(n, s0, s, words, path, kind) ==
    IF Accepts(n, s)
    THEN Outcome(TRUE, (s * n) \div RngMod, Step(s),
                 <<DrawRec(path, kind, n, (s * n) \div RngMod, s0, words)>>, 0)
    ELSE SampleSingle(n, s0, Step(s), words + 1, path, kind)

\* rng.gen_range(0..n): panics on an empty range before any word is read,
\* else a value in [0, n)
GenRange(n, s, path, kind) ==
    IF n <= 0
    THEN Panic(s, <<>>, 0)
    ELSE SampleSingle(n, s, s, 1, path, kind)

\* rng.gen::<T>() returned v after taking words words from state s; d is v as
\* the draw records it
Sampled(v, d, s, words, path, kind) ==
    Outcome(TRUE, v, StepN(s, words),
            <<DrawRec(path, kind, 0, d, s, words)>>, 0)

\* x, below 2^bits, read as a two's complement number of that many bits
Signed(x, bits) == IF x >= 2 ^ (bits - 1) THEN x - 2 ^ bits ELSE x

\* a whole word as an unsigned number: <<t, l>> stands for
\* t * 2^(W - RngBits) + l
WordU(s) == <<s, s>>

\* a whole word as a signed number
WordI(s) == <<Signed(s, RngBits), s>>

\* bool: (rng.next_u32() as i32) < 0, the top bit of the word
GenBool(s, path) ==
    Sampled(s >= RngMod \div 2, IF s >= RngMod \div 2 THEN 1 ELSE 0,
            s, 1, path, "bool")

\* u8, u16: rng.next_u32() as T, the low bits of the word
GenLowU(bits, s, path, kind) ==
    Sampled(s % (2 ^ bits), s % (2 ^ bits), s, 1, path, kind)

\* i8, i16: rng.next_u32() as T
GenLowI(bits, s, path, kind) ==
    Sampled(Signed(s % (2 ^ bits), bits), Signed(s % (2 ^ bits), bits),
            s, 1, path, kind)

\* u32, u64, usize: the word
GenWordU(s, path, kind) == Sampled(WordU(s), WordU(s), s, 1, path, kind)

\* i32, i64, isize: the word as a signed number
GenWordI(s, path, kind) == Sampled(WordI(s), WordI(s), s, 1, path, kind)

\* u128: two words, the low half first: <<high, low>>
GenU128(s, path) ==
    Sampled(<<WordU(Step(s)), WordU(s)>>, <<WordU(Step(s)), WordU(s)>>,
            s, 2, path, "u128")

\* i128: rng.gen::<u128>() as i128
GenI128(s, path) ==
    Sampled(<<WordI(Step(s)), WordU(s)>>, <<WordI(Step(s)), WordU(s)>>,
            s, 2, path, "i128")

\* f32, f64: the top 24 (53) bits of the word scaled into [0, 1), which is
\* s / RngMod: <<numerator, denominator>>
GenFloat(s, path, kind) ==
    Sampled(<<s, RngMod>>, <<s, RngMod>>, s, 1, path, kind)

\* the surrogates, which are no chars: 0xD800..=0xDFFF
CharGapStart == 55296
CharGapSize == 2048
\* one past the largest char
CharEnd == 1114112

\* the scalar value Uniform::new(GAP_SIZE, 0x11_0000) gives for the word of s:
\* low + hi of word * range.  lo is s * range for these words, far below
\* the zone, so the first word is taken.
CharSample(s) == CharGapSize + (s * (CharEnd - CharGapSize)) \div RngMod

\* char: if n <= 0xDFFF { n -= GAP_SIZE }
GenChar(s, path) ==
    Sampled(IF CharSample(s) < CharGapStart + CharGapSize
            THEN CharSample(s) - CharGapSize ELSE CharSample(s),
            IF CharSample(s) < CharGapStart + CharGapSize
            THEN CharSample(s) - CharGapSize ELSE CharSample(s),
            s, 1, path, "char")

\* GEN_ASCII_STR_CHARSET of rand's Alphanumeric
Charset ==
    <<"A", "B", "C", "D", "E", "F", "G", "H", "I", "J", "K", "L", "M",
      "N", "O", "P", "Q", "R", "S", "T", "U", "V", "W", "X", "Y", "Z",
      "a", "b", "c", "d", "e", "f", "g", "h", "i", "j", "k", "l", "m",
      "n", "o", "p", "q", "r", "s", "t", "u", "v", "w", "x", "y", "z",
      "0", "1", "2", "3", "4", "5", "6", "7", "8", "9">>

\* the top six bits of the word: rng.next_u32() >> (32 - 6)
Var6(s) == (s * 64) \div RngMod

RECURSIVE GenAlphanumeric(_, _, _, _)
\* Alphanumeric.sample: loop { if var < RANGE { return CHARSET[var] } }
GenAlphanumeric(s0, s, words, path) ==
    IF Var6(s) < Len(Charset)
    THEN Outcome(TRUE, Charset[Var6(s) + 1], Step(s),
                 <<DrawRec(path, "alnum", Len(Charset), Var6(s), s0, words)>>, 0)
    ELSE GenAlphanumeric(s0, Step(s), words + 1, path)

----------------------------------------------------------------------------
(* Type shapes *)

\* a type: its kind, its type parameters, its length (an array's N) and, for
\* an enum, the weight attributes of its variants
Ty(k, ts, n, w) == <<k, ts, n, w>>
Kind(ty) == ty[1]
Params(ty) == ty[2]
Length(ty) == ty[3]
VariantAttrs(ty) == ty[4]

\* the types of impl_generate_random!
ScalarKinds ==
    {"bool", "char", "u8", "i8", "u16", "i16", "u32", "i32", "u64", "i64",
     "u128", "i128", "usize", "isize", "f32", "f64"}

ScalarT(k) == Ty(k, <<>>, 0, <<>>)
BoolT == ScalarT("bool")
U8T == ScalarT("u8")
U128T == ScalarT("u128")
StringT == Ty("string", <<>>, 0, <<>>)
OptionT(t) == Ty("option", <<t>>, 0, <<>>)
ArrayT(t, n) == Ty("array", <<t>>, n, <<>>)
VecT(t) == Ty("vec", <<t>>, 0, <<>>)
HashSetT(t) == Ty("hashset", <<t>>, 0, <<>>)
HashMapT(k, v) == Ty("hashmap", <<k, v>>, 0, <<>>)
BoxT(t) == Ty("box", <<t>>, 0, <<>>)
RangeT(t) == Ty("range", <<t>>, 0, <<>>)
RangeFromT(t) == Ty("rangefrom", <<t>>, 0, <<>>)
RangeFullT == Ty("rangefull", <<>>, 0, <<>>)
RangeInclusiveT(t) == Ty("rangeinclusive", <<t>>, 0, <<>>)
RangeToT(t) == Ty("rangeto", <<t>>, 0, <<>>)
RangeToInclusiveT(t) == Ty("rangetoinclusive", <<t>>, 0, <<>>)
TupleT(ts) == Ty("tuple", ts, 0, <<>>)
StructT(ts) == Ty("struct", ts, 0, <<>>)
\* an enum with the #[weight] attributes attrs, one entry per variant
EnumT(attrs) == Ty("enum", <<>>, 0, attrs)
\* an enum none of whose variants has fields (an enumset::EnumSetType)
UnitEnumT(attrs) == Ty("enum", <<>>, 1, attrs)
Fieldless(ty) == Length(ty) = 1
\* feature enumset
EnumSetT(t) == Ty("enumset", <<t>>, 0, <<>>)
\* feature cgmath: Vector1..4, Point1..3, Matrix2..4 of size n; Deg, Rad, Euler
VectorT(t, n) == Ty("Vector", <<t>>, n, <<>>)
PointT(t, n) == Ty("Point", <<t>>, n, <<>>)
MatrixT(t, n) == Ty("Matrix", <<t>>, n, <<>>)
DegT(t) == Ty("Deg", <<t>>, 0, <<>>)
RadT(t) == Ty("Rad", <<t>>, 0, <<>>)
EulerT(t) == Ty("Euler", <<t>>, 0, <<>>)
\* feature collision: Aabb2, Aabb3
AabbT(t, n) == Ty("Aabb", <<t>>, n, <<>>)

----------------------------------------------------------------------------
(* Policy constants of lib.rs *)

\* Vec: rng.gen_range(0..8)
VecLenBound == 8
\* HashSet: rng.gen_range(0..8)
HashSetLenBound == 8
\* HashMap: rng.gen_range(0..8)
HashMapLenBound == 8
\* String: rng.gen_range(0..32)
StringLenBound == 32

----------------------------------------------------------------------------
(* The enum declaration the derive macro reads.  decl holds, per variant   *)
(* in declaration order, the tokens of its #[weight(..)] attribute: <<>>   *)
(* when the variant has none, <<w>> for #[weight(w)], one literal, and     *)
(* <<"-", w>> for #[weight(-w)], a punctuation and a literal.  Sums stay   *)
(* far below the width of the integer type the literals get, so + does     *)
(* not wrap here.                                                          *)

\* the variants' identifiers, in declaration order
VariantIdents == <<"A", "C", "B", "D", "E", "F", "G", "H">>

\* the fields of the variant with (zero-based) index i of enum ty:
\* A, C(bool), B { x: u8 }, D, E(u8, bool), and so on in turn
VariantFields(ty, i) ==
    CASE Fieldless(ty) -> <<>>
      [] i % 5 = 0 -> <<>>
      [] i % 5 = 1 -> <<BoolT>>
      [] i % 5 = 2 -> <<U8T>>
      [] i % 5 = 3 -> <<>>
      [] OTHER     -> <<U8T, BoolT>>

\* (mutant) the weight attribute is not read
VariantWeightIgnored(attr) == 1

\* (mutant) the tokens are parsed as a signed number
ParseArgsSigned(attr) ==
    IF Len(attr) = 1 THEN <<TRUE, attr[1]>> ELSE <<TRUE, 0 - attr[2]>>

\* attr.parse_args::<Literal>() on the tokens of a weight attribute: <<TRUE,
\* the literal>> when they are one literal, else <<FALSE, 0>>, an error
ParseArgs(attr) == IF Len(attr) = 1 THEN <<TRUE, attr[1]>> ELSE <<FALSE, 0>>

\* variant_weight panics: .expect("expected literal for `#[weight(...)]`")
VariantWeightPanics(attr) == Len(attr) > 0 /\ ~ParseArgs(attr)[1]

\* variant_weight: the literal of the weight attribute, 1 without one
VariantWeight(attr) == IF Len(attr) > 0 THEN ParseArgs(attr)[2] ELSE 1

\* generate goes through: no variant_weight of its loop panics
Expands(attrs) == \A i \in 1..Len(attrs) : ~VariantWeightPanics(attrs[i])

\* the weight table: variant_weight of every variant, in declaration order
VariantWeights(attrs) == [i \in 1..Len(attrs) |-> VariantWeight(attrs[i])]

RECURSIVE TotalWeight(_)
\* total_weight: 0 + w0 + w1 + ...
TotalWeight(attrs) ==
    IF attrs = <<>> THEN 0
    ELSE TotalWeight(SubSeq(attrs, 1, Len(attrs) - 1))
         + VariantWeight(attrs[Len(attrs)])

\* num_variants: one per variant the macro's loop visited
NumVariants(ty) == Len(VariantAttrs(ty))

\* (mutant) the name arms are numbered from one
VariantNameFromOne(ty, variant) ==
    IF variant >= 1 /\ variant <= Len(VariantAttrs(ty))
    THEN VariantIdents[variant]
    ELSE ""

\* variant_name: the arm of the index, "" for any other index
VariantName(ty, variant) ==
    IF variant < Len(VariantAttrs(ty)) THEN VariantIdents[variant + 1] ELSE ""

\* what the walk yields when no arm returned: the unreachable!() after them
NoVariant == -1

\* let end = 0;
WalkInit == 0

RECURSIVE WalkFromStrict(_, _, _, _)
\* (mutant) the interval test excludes start and includes end
WalkFromStrict(weights, value, i, end) ==
    IF i > Len(weights) THEN NoVariant
    ELSE LET start == end
             end2 == start + weights[i]
         IN  IF start < value /\ value <= end2
             THEN i - 1
             ELSE WalkFromStrict(weights, value, i + 1, end2)

RECURSIVE WalkFrom(_, _, _, _)
\* the arms from the i-th on (i counts from 1), entered with the running end:
\*   let start = end; let end = start + weight;
\*   if start <= value && value < end { return variant index }
WalkFrom(weights, value, i, end) ==
    IF i > Len(weights) THEN NoVariant
    ELSE LET start == end
             end2 == start + weights[i]
         IN  IF start <= value /\ value < end2
             THEN i - 1
             ELSE WalkFrom(weights, value, i + 1, end2)

\* the whole walk: the index of the first variant whose interval holds value
Walk(weights, value) == WalkFrom(weights, value, 1, WalkInit)

----------------------------------------------------------------------------
(* generate_random, by type shape.  Each impl is written as the call it    *)
(* makes first and an operator, named ...Of, for what it does with that    *)
(* call's outcome.                                                         *)

RECURSIVE Gen(_, _, _)
RECURSIVE GenSeq(_, _, _)
RECURSIVE GenSeqRev(_, _, _, _)
RECURSIVE GenerateRandomEnum(_, _, _)

\* the outcome r of a call made after the draws of d: d's draws come first
Prefix(d, r) == [r EXCEPT !.trace = d.trace \o @, !.fb = d.fb + @]

\* the values init followed by the value of r, generated after them
Snoc(init, r) ==
    IF r.ok
    THEN Outcome(TRUE, Append(init.val, r.val), r.rng,
                 init.trace \o r.trace, init.fb + r.fb)
    ELSE Panic(r.rng, init.trace \o r.trace, init.fb + r.fb)

\* the value of r, generated first, before the values of rest
Cons(r, rest) ==
    IF rest.ok
    THEN Outcome(TRUE, Append(rest.val, r.val), rest.rng,
                 r.trace \o rest.trace, r.fb + rest.fb)
    ELSE Panic(rest.rng, r.trace \o rest.trace, r.fb + rest.fb)

GenSeqRevOf(tys, r, path, k) ==
    IF r.ok THEN Cons(r, GenSeqRev(tys, r.rng, path, k - 1)) ELSE r

\* (mutant helper) the calls for the first k types of tys made last to first
GenSeqRev(tys, s, path, k) ==
    IF k = 0 THEN Outcome(TRUE, <<>>, s, <<>>, 0)
    ELSE GenSeqRevOf(tys, Gen(tys[k], s, Append(path, k - 1)), path, k)

GenSeqOf(tys, init, path) ==
    IF init.ok
    THEN Snoc(init, Gen(tys[Len(tys)], init.rng, Append(path, Len(tys) - 1)))
    ELSE init

\* generate_random called for each type of tys in turn, left to right, on the
\* same rng: the values in order.  Component k (from 0) has path path.k.
GenSeq(tys, s, path) ==
    IF tys = <<>> THEN Outcome(TRUE, <<>>, s, <<>>, 0)
    ELSE GenSeqOf(tys, GenSeq(SubSeq(tys, 1, Len(tys) - 1), s, path), path)

\* n copies of type t
Repeat(t, n) == [i \in 1..n |-> t]

\* rng.gen() for a scalar type: the Standard distribution of the type
GenScalar(ty, s, path) ==
    CASE Kind(ty) = "bool" -> GenBool(s, path)
      [] Kind(ty) = "char" -> GenChar(s, path)
      [] Kind(ty) = "u8" -> GenLowU(8, s, path, "u8")
      [] Kind(ty) = "i8" -> GenLowI(8, s, path, "i8")
      [] Kind(ty) = "u16" -> GenLowU(16, s, path, "u16")
      [] Kind(ty) = "i16" -> GenLowI(16, s, path, "i16")
      [] Kind(ty) \in {"u32", "u64", "usize"} -> GenWordU(s, path, Kind(ty))
      [] Kind(ty) \in {"i32", "i64", "isize"} -> GenWordI(s, path, Kind(ty))
      [] Kind(ty) = "u128" -> GenU128(s, path)
      [] Kind(ty) = "i128" -> GenI128(s, path)
      [] Kind(ty) \in {"f32", "f64"} -> GenFloat(s, path, Kind(ty))

\* Some(v) is <<v>>, None is <<>>
Some(r) == IF r.ok THEN [r EXCEPT !.val = <<@>>] ELSE r

GenOptionEagerOf(r, b) ==
    Outcome(TRUE, IF b.val THEN <<r.val>> ELSE <<>>, b.rng,
            r.trace \o b.trace, r.fb)

\* (mutant) Option: the inner value is generated before the boolean is drawn
GenOptionEager(ty, s, path) ==
    LET r == Gen(Params(ty)[1], s, Append(path, 0))
    IN  IF r.ok THEN GenOptionEagerOf(r, GenBool(r.rng, path)) ELSE r

GenOptionOf(ty, b, path) ==
    IF b.val
    THEN Prefix(b, Some(Gen(Params(ty)[1], b.rng, Append(path, 0))))
    ELSE [b EXCEPT !.val = <<>>]

\* Option<T>: if bool::generate_random(rng) { Some(T::generate_random(rng)) }
\* else { None }
GenOption(ty, s, path) == GenOptionOf(ty, GenBool(s, path), path)

RECURSIVE SampleChars(_, _, _, _)

\* the values of l followed by those of r, generated after them
Join(l, r) ==
    Outcome(TRUE, l.val \o r.val, r.rng, l.trace \o r.trace, l.fb + r.fb)

SampleCharsOf(l, m, b, path) == Join(l, SampleChars(m, b, l.rng, path))

\* the chars a, ..., b - 1 of the string, sampled in turn from state s (the
\* first half, then the second half from the state the first left)
SampleChars(a, b, s, path) ==
    IF b <= a THEN Outcome(TRUE, <<>>, s, <<>>, 0)
    ELSE IF b = a + 1 THEN Some(GenAlphanumeric(s, s, 1, Append(path, a)))
    ELSE SampleCharsOf(SampleChars(a, (a + b) \div 2, s, path),
                       (a + b) \div 2, b, path)

\* Alphanumeric.sample_string(rng, len): len chars sampled in turn
SampleString(len, s, path) == SampleChars(0, len, s, path)

GenStringOf(d, path) == Prefix(d, SampleString(d.val, d.rng, path))

\* String: let len = rng.gen_range(0..32); the chars, as a sequence
GenString(ty, s, path) ==
    GenStringOf(GenRange(StringLenBound, s, path, "len"), path)

\* [T; N]: core::array::from_fn, index order
GenArray(ty, s, path) == GenSeq(Repeat(Params(ty)[1], Length(ty)), s, path)

GenLenThenOf(t, d, path) ==
    IF d.ok THEN Prefix(d, GenSeq(Repeat(t, d.val), d.rng, path)) ELSE d

\* let len = rng.gen_range(0..bound); (0..len).map(|_| T::generate_random(rng))
GenLenThen(bound, t, s, path) ==
    GenLenThenOf(t, GenRange(bound, s, path, "len"), path)

\* (mutant) Vec: the length is drawn from 0..=8
GenVecInclusive(ty, s, path) ==
    GenLenThen(VecLenBound + 1, Params(ty)[1], s, path)

\* Vec<T>: collect keeps the order of generation
GenVec(ty, s, path) == GenLenThen(VecLenBound, Params(ty)[1], s, path)

RECURSIVE CollectSet(_)
\* collect into a HashSet: the elements inserted in order
CollectSet(vals) ==
    IF vals = <<>> THEN {}
    ELSE CollectSet(SubSeq(vals, 1, Len(vals) - 1)) \cup {vals[Len(vals)]}

GenHashSetOf(r) == IF r.ok THEN [r EXCEPT !.val = CollectSet(@)] ELSE r

\* HashSet<T>
GenHashSet(ty, s, path) ==
    GenHashSetOf(GenLenThen(HashSetLenBound, Params(ty)[1], s, path))

\* HashMap::insert: a new key is added, a present key gets the new value
MapInsert(m, k, v) ==
    [x \in (DOMAIN m) \cup {k} |-> IF x = k THEN v ELSE m[x]]

RECURSIVE CollectMap(_)
\* collect into a HashMap: the pairs inserted in order
CollectMap(pairs) ==
    IF pairs = <<>> THEN [x \in {} |-> 0]
    ELSE MapInsert(CollectMap(SubSeq(pairs, 1, Len(pairs) - 1)),
                   pairs[Len(pairs)][1], pairs[Len(pairs)][2])

GenHashMapOf(r) == IF r.ok THEN [r EXCEPT !.val = CollectMap(@)] ELSE r

\* HashMap<K, V>: each entry is the tuple (K::generate_random, V::generate_random)
GenHashMap(ty, s, path) ==
    GenHashMapOf(GenLenThen(HashMapLenBound, TupleT(Params(ty)), s, path))

\* EnumSet<T>: let max = variant_count() * 2; let len = rng.gen_range(0..max);
\* the variants generated, collected
GenEnumSet(ty, s, path) ==
    GenHashSetOf(GenLenThen(NumVariants(Params(ty)[1]) * 2, Params(ty)[1],
                            s, path))

\* .into() or Self(..): the value under the name of its type
Into(ty, r) == IF r.ok THEN [r EXCEPT !.val = <<Kind(ty), @>>] ELSE r

\* VectorN, PointN: <[T; N]>::generate_random(rng).into()
GenFromArray(ty, s, path) ==
    Into(ty, Gen(ArrayT(Params(ty)[1], Length(ty)), s, path))

\* MatrixN: <[[T; N]; N]>::generate_random(rng).into()
GenMatrix(ty, s, path) ==
    Into(ty, Gen(ArrayT(ArrayT(Params(ty)[1], Length(ty)), Length(ty)),
                 s, path))

\* Deg, Rad: Self(GenerateRandom::generate_random(rng))
GenWrap(ty, s, path) == Into(ty, Gen(Params(ty)[1], s, Append(path, 0)))

\* Euler: x, y, z in turn, Self::new(x, y, z)
GenEuler(ty, s, path) ==
    Into(ty, GenSeq(Repeat(Params(ty)[1], 3), s, path))

Min(a, b) == IF a <= b THEN a ELSE b
Max(a, b) == IF a >= b THEN a ELSE b

\* AabbN::new(p1, p2): the corners min and max, coordinate by coordinate
AabbNew(p1, p2) ==
    <<<<"Point", [i \in 1..Len(p1[2]) |-> Min(p1[2][i], p2[2][i])]>>,
      <<"Point", [i \in 1..Len(p1[2]) |-> Max(p1[2][i], p2[2][i])]>>>>

GenAabbOf(r) == IF r.ok THEN [r EXCEPT !.val = AabbNew(@[1], @[2])] ELSE r

\* Aabb2, Aabb3: p1, then p2, Self::new(p1, p2)
GenAabb(ty, s, path) ==
    Into(ty, GenAabbOf(GenSeq(Repeat(PointT(Params(ty)[1], Length(ty)), 2),
                              s, path)))

\* Box<T>: the inner value, no draw of its own
GenBox(ty, s, path) == Gen(Params(ty)[1], s, Append(path, 0))

\* Range<T> and RangeInclusive<T>: start, then end
GenRange2(ty, s, path) == GenSeq(<<Params(ty)[1], Params(ty)[1]>>, s, path)

\* RangeFrom<T>, RangeTo<T>, RangeToInclusive<T>: the one bound
GenRange1(ty, s, path) == GenSeq(<<Params(ty)[1]>>, s, path)

\* RangeFull: no draw
GenRangeFull(ty, s, path) == Outcome(TRUE, <<>>, s, <<>>, 0)

\* (mutant) tuple: the components are generated last to first
GenTupleRev(ty, s, path) == GenSeqRev(Params(ty), s, path, Len(Params(ty)))

\* tuples of arity 0..12: the components in position order
GenTuple(ty, s, path) == GenSeq(Params(ty), s, path)

\* generate_fields: every declared field in declaration order
GenerateFields(fields, s, path) == GenSeq(fields, s, path)

\* derived struct: Self { fields }
GenStruct(ty, s, path) == GenerateFields(Params(ty), s, path)

\* Self::Variant { fields }: the variant's index with its field values
Construct(variant, f) ==
    IF f.ok THEN [f EXCEPT !.val = [variant |-> variant, fields |-> @]] ELSE f

\* (mutant) an index with no arm panics
GenerateRandomVariantStrict(ty, s, variant, path) ==
    IF variant < NumVariants(ty)
    THEN Construct(variant,
                   GenerateFields(VariantFields(ty, variant), s,
                                  Append(path, variant)))
    ELSE Panic(s, <<>>, 0)

\* one more fall from generate_random_variant back to generate_random
Fallback(r) == [r EXCEPT !.fb = @ + 1]

\* generate_random_variant: the arm of the index builds that variant from its
\* generated fields; any other index goes to generate_random
GenerateRandomVariant(ty, s, variant, path) ==
    IF variant < NumVariants(ty)
    THEN Construct(variant,
                   GenerateFields(VariantFields(ty, variant), s,
                                  Append(path, variant)))
    ELSE Fallback(GenerateRandomEnum(ty, s, path))

\* the arms and the unreachable!() after them, entered with the drawn value
Arms(ty, d, sel, path) ==
    IF sel = NoVariant THEN Panic(d.rng, d.trace, 0)
    ELSE Prefix(d, GenerateRandomVariant(ty, d.rng, sel, path))

GenerateRandomEnumOf(ty, d, path) ==
    IF d.ok
    THEN Arms(ty, d, Walk(VariantWeights(VariantAttrs(ty)), d.val), path)
    ELSE d

GenerateRandomEnumUniformOf(ty, d, path) ==
    IF d.ok THEN Arms(ty, d, d.val, path) ELSE d

\* (mutant) a total of zero selects uniformly among the variants
GenerateRandomEnumUniform(ty, s, path) ==
    IF TotalWeight(VariantAttrs(ty)) = 0 /\ NumVariants(ty) > 0
    THEN GenerateRandomEnumUniformOf(
             ty, GenRange(NumVariants(ty), s, path, "select"), path)
    ELSE GenerateRandomEnumOf(
             ty, GenRange(TotalWeight(VariantAttrs(ty)), s, path, "select"), path)

\* derived enum, generate_random: draw value in 0..total_weight, walk the arms,
\* return generate_random_variant of the arm that holds value; unreachable!()
\* when none does
GenerateRandomEnum(ty, s, path) ==
    GenerateRandomEnumOf(
        ty, GenRange(TotalWeight(VariantAttrs(ty)), s, path, "select"), path)

\* T::generate_random(rng), resolved by the shape of T
Gen(ty, s, path) ==
    CASE Kind(ty) \in ScalarKinds -> GenScalar(ty, s, path)
      [] Kind(ty) = "string" -> GenString(ty, s, path)
      [] Kind(ty) = "option" -> GenOption(ty, s, path)
      [] Kind(ty) = "array" -> GenArray(ty, s, path)
      [] Kind(ty) = "vec" -> GenVec(ty, s, path)
      [] Kind(ty) = "hashset" -> GenHashSet(ty, s, path)
      [] Kind(ty) = "hashmap" -> GenHashMap(ty, s, path)
      [] Kind(ty) = "box" -> GenBox(ty, s, path)
      [] Kind(ty) \in {"range", "rangeinclusive"} -> GenRange2(ty, s, path)
      [] Kind(ty) \in {"rangefrom", "rangeto", "rangetoinclusive"} ->
             GenRange1(ty, s, path)
      [] Kind(ty) = "rangefull" -> GenRangeFull(ty, s, path)
      [] Kind(ty) = "tuple" -> GenTuple(ty, s, path)
      [] Kind(ty) = "struct" -> GenStruct(ty, s, path)
      [] Kind(ty) = "enumset" -> GenEnumSet(ty, s, path)
      [] Kind(ty) \in {"Vector", "Point"} -> GenFromArray(ty, s, path)
      [] Kind(ty) = "Matrix" -> GenMatrix(ty, s, path)
      [] Kind(ty) \in {"Deg", "Rad"} -> GenWrap(ty, s, path)
      [] Kind(ty) = "Euler" -> GenEuler(ty, s, path)
      [] Kind(ty) = "Aabb" -> GenAabb(ty, s, path)
      [] Kind(ty) = "enum" -> GenerateRandomEnum(ty, s, path)

----------------------------------------------------------------------------
(* The caller *)

\* the record kept of a call: what was called, on which type, with which
\* argument, from which rng state, and its outcome
Call(op, ty, arg, s0, out) ==
    [op |-> op, ty |-> ty, arg |-> arg, rng0 |-> s0, ok |-> out.ok,
     val |-> out.val, rng |-> out.rng, trace |-> out.trace, fb |-> out.fb]

NoCall == Call("none", BoolT, 0, 0, Outcome(TRUE, 0, 0, <<>>, 0))

GenOps == {"generate_random", "generate_random_variant"}

\* the call op made on a rng in state s
Run(op, ty, arg, s) ==
    IF op = "generate_random" THEN Gen(ty, s, <<>>)
    ELSE GenerateRandomVariant(ty, s, arg, <<>>)

\* a #[weight(..)] attribute, or none
Attrs == {<<>>} \cup {<<w>> : w \in 0..MaxWeight} \cup {<<"-", 1>>}

\* the declarations: up to MaxVariants variants, each with or without a weight
Decls == UNION {[1..n -> Attrs] : n \in 0..MaxVariants}

\* the variant indexes a caller passes: those declared, the next one, and 99
Indexes == 0..MaxVariants \cup {99}

\* the enum of the crate's documentation with one more variant:
\* A, C(bool), B { x: u8 }, #[weight(2)] D, E(u8, bool)
DocDecl == <<<<>>, <<>>, <<>>, <<2>>, <<>>>>

\* the derive went through, and no call has panicked: a panic ends the
\* caller, calls are made at the start or after a return
Running == code = "derived" /\ last.ok

\* the record of the generation call op made on the caller's rng
Made(op, ty, arg) == Call(op, ty, arg, rng, Run(op, ty, arg, rng))

\* the call left the caller's rng in the state recorded
Returned ==
    /\ rng' = last'.rng
    /\ ref' = NoCall
    /\ UNCHANGED <<decl, code>>

\* #[derive(GenerateRandom)] on the enum: generate emits the impls, or
\* panics in variant_weight and the enum has no generate_random
Derive ==
    /\ code = "source"
    /\ code' = IF Expands(decl) THEN "derived" ELSE "error"
    /\ UNCHANGED <<rng, decl, last, ref>>

\* the caller builds its rng anew in the state the last call started from
\* (as tests::rng() does from its seed) and makes the same call again
Replay ==
    /\ Running
    /\ last.op \in GenOps
    /\ ref' = last
    /\ last' = Call(last.op, last.ty, last.arg, last.rng0,
                    Run(last.op, last.ty, last.arg, last.rng0))
    /\ rng' = last'.rng
    /\ UNCHANGED <<decl, code>>

\* <Enum as GenerateRandom>::generate_random(&mut rng)
CallGenerateRandom ==
    /\ Running
    /\ last' = Made("generate_random", EnumT(decl), 0)
    /\ Returned

\* <Enum as GenerateRandomVariant>::generate_random_variant(&mut rng, variant)
CallGenerateRandomVariant ==
    \E variant \in Indexes :
        /\ Running
        /\ last' = Made("generate_random_variant", EnumT(decl), variant)
        /\ Returned

\* <Enum as GenerateRandomVariant>::num_variants()
CallNumVariants ==
    /\ Running
    /\ last' = Call("num_variants", EnumT(decl), 0, rng,
                    Outcome(TRUE, NumVariants(EnumT(decl)), rng, <<>>, 0))
    /\ ref' = NoCall
    /\ UNCHANGED <<rng, decl, code>>

\* <Enum as GenerateRandomVariant>::variant_name(variant)
CallVariantName ==
    \E variant \in Indexes :
        /\ Running
        /\ last' = Call("variant_name", EnumT(decl), variant, rng,
                        Outcome(TRUE, VariantName(EnumT(decl), variant), rng, <<>>, 0))
        /\ ref' = NoCall
        /\ UNCHANGED <<rng, decl, code>>

Init ==
    /\ rng \in 0..(RngMod - 1)
    /\ decl \in Decls
    /\ code = "source"
    /\ last = NoCall
    /\ ref = NoCall

Next ==
    \/ Derive
    \/ CallGenerateRandom
    \/ CallGenerateRandomVariant
    \/ CallNumVariants
    \/ CallVariantName
    \/ Replay

\* the derived enum and its caller
Spec == Init /\ [][Next]_vars

----------------------------------------------------------------------------
(* The impls of lib.rs, called on types built from a few component types *)

Inner ==
    {BoolT, U8T, U128T, StringT, OptionT(BoolT), TupleT(<<U8T, BoolT>>),
     EnumT(DocDecl)}

\* the impls of impl_generate_random!: bool, char, u8, ..., f64
CallScalar ==
    \E k \in ScalarKinds :
        /\ Running
        /\ last' = Made("generate_random", ScalarT(k), 0)
        /\ Returned

\* String::generate_random
CallString ==
    /\ Running
    /\ last' = Made("generate_random", StringT, 0)
    /\ Returned

\* Option::<T>::generate_random
CallOption ==
    \E t \in Inner :
        /\ Running
        /\ last' = Made("generate_random", OptionT(t), 0)
        /\ Returned

\* <[T; N]>::generate_random
CallArray ==
    \E t \in Inner : \E n \in 0..3 :
        /\ Running
        /\ last' = Made("generate_random", ArrayT(t, n), 0)
        /\ Returned

\* Vec::<T>::generate_random
CallVec ==
    \E t \in Inner :
        /\ Running
        /\ last' = Made("generate_random", VecT(t), 0)
        /\ Returned

\* HashSet::<T>::generate_random
CallHashSet ==
    \E t \in Inner :
        /\ Running
        /\ last' = Made("generate_random", HashSetT(t), 0)
        /\ Returned

\* HashMap::<K, V>::generate_random
CallHashMap ==
    \E k \in {BoolT, U8T} : \E v \in Inner :
        /\ Running
        /\ last' = Made("generate_random", HashMapT(k, v), 0)
        /\ Returned

\* Box::<T>::generate_random
CallBox ==
    \E t \in Inner :
        /\ Running
        /\ last' = Made("generate_random", BoxT(t), 0)
        /\ Returned

\* generate_random of the six range types
CallRange ==
    \E t \in Inner :
        \E r \in {RangeT(t), RangeFromT(t), RangeFullT, RangeInclusiveT(t),
                  RangeToT(t), RangeToInclusiveT(t)} :
            /\ Running
            /\ last' = Made("generate_random", r, 0)
            /\ Returned

\* generate_random of a tuple
CallTuple ==
    \E ts \in UNION {[1..n -> Inner] : n \in 0..2} :
        /\ Running
        /\ last' = Made("generate_random", TupleT(ts), 0)
        /\ Returned

\* generate_random of a derived struct
CallStruct ==
    \E ts \in {<<U8T, BoolT>>, <<OptionT(BoolT), U8T, EnumT(DocDecl)>>} :
        /\ Running
        /\ last' = Made("generate_random", StructT(ts), 0)
        /\ Returned

\* generate_random of the derived enum
CallEnum ==
    /\ Running
    /\ last' = Made("generate_random", EnumT(DocDecl), 0)
    /\ Returned

\* EnumSet::<T>::generate_random, T with one to three variants
CallEnumSet ==
    \E attrs \in {<<<<>>>>, <<<<>>, <<2>>>>, <<<<>>, <<0>>, <<>>>>} :
        /\ Running
        /\ last' = Made("generate_random", EnumSetT(UnitEnumT(attrs)), 0)
        /\ Returned

\* generate_random of the cgmath types
CallCgmath ==
    \E t \in {U8T, BoolT} :
        \E c \in {VectorT(t, n) : n \in 1..4} \cup {PointT(t, n) : n \in 1..3}
                  \cup {MatrixT(t, n) : n \in 2..4}
                  \cup {DegT(t), RadT(t), EulerT(t)} :
            /\ Running
            /\ last' = Made("generate_random", c, 0)
            /\ Returned

\* generate_random of the collision types
CallCollision ==
    \E n \in 2..3 :
        /\ Running
        /\ last' = Made("generate_random", AabbT(U8T, n), 0)
        /\ Returned

InitShapes ==
    /\ rng \in 0..(RngMod - 1)
    /\ decl = DocDecl
    /\ code = "derived"
    /\ last = NoCall
    /\ ref = NoCall

NextShapes ==
    \/ CallScalar
    \/ CallString
    \/ CallOption
    \/ CallArray
    \/ CallVec
    \/ CallHashSet
    \/ CallHashMap
    \/ CallBox
    \/ CallRange
    \/ CallTuple
    \/ CallStruct
    \/ CallEnum
    \/ CallEnumSet
    \/ CallCgmath
    \/ CallCollision
    \/ Replay

\* the impls of lib.rs and their caller
SpecShapes == InitShapes /\ [][NextShapes]_vars

----------------------------------------------------------------------------
(* The declaration, read off decl without the generated code *)

NumDeclared == Len(decl)

\* the weight declared for the i-th variant (i from 1): its attribute, else 1
DeclWeight(i) ==
    CASE Len(decl[i]) = 0 -> 1
      [] Len(decl[i]) = 1 -> decl[i][1]
      [] OTHER -> 0 - decl[i][2]

RECURSIVE SumTo(_)
\* the sum of the declared weights of the first i variants
SumTo(i) == IF i = 0 THEN 0 ELSE SumTo(i - 1) + DeclWeight(i)

DeclTotal == SumTo(NumDeclared)

\* every weight is non-negative and their sum is positive
ValidTable ==
    /\ \A i \in 1..NumDeclared : DeclWeight(i) >= 0
    /\ DeclTotal > 0

\* the variants (from 1) whose interval [start, end) holds v
Holding(v) == {i \in 1..NumDeclared : SumTo(i - 1) <= v /\ v < SumTo(i)}

\* the last call went through the weighted selection of generate_random
Selected ==
    \/ last.op = "generate_random"
    \/ last.op = "generate_random_variant" /\ last.arg >= NumDeclared

\* the last call was generate_random on a type of kind k
Generated(k) == last.op = "generate_random" /\ Kind(last.ty) = k

\* the value a scalar draw returned
ScalarVal(d) == IF d.kind = "bool" THEN d.value = 1 ELSE d.value

Scalars == {ScalarT(k) : k \in ScalarKinds}

\* the rng state a draw left
After(d) == StepN(d.at, d.words)

\* a weight of the declaration is negative
HasNegative == \E i \in 1..NumDeclared : DeclWeight(i) < 0

\* path p is before path q: lexicographic, a path before its extensions
PathLE(p, q) ==
    LET m == IF Len(p) < Len(q) THEN Len(p) ELSE Len(q)
        diff == {i \in 1..m : p[i] # q[i]}
    IN  IF diff = {} THEN Len(p) <= Len(q)
        ELSE LET i == CHOOSE x \in diff : \A y \in diff : x <= y
             IN  p[i] < q[i]

----------------------------------------------------------------------------
(* Properties *)

\* C1: with non-negative weights of positive total, every value in
\* [0, total) lies in the interval of exactly one variant, the walk returns
\* that variant, and a generate_random call returns it for the value it drew:
\* the point after the arms is not reached.
C1_OneInterval ==
    ValidTable =>
        /\ \A v \in 0..(DeclTotal - 1) :
              /\ Cardinality(Holding(v)) = 1
              /\ Walk(VariantWeights(decl), v) + 1 \in Holding(v)
        /\ Selected =>
              /\ last.ok
              /\ last.trace[1].kind = "select"
              /\ last.trace[1].bound = DeclTotal
              /\ last.trace[1].value \in 0..(DeclTotal - 1)
              /\ Holding(last.trace[1].value) = {last.val.variant + 1}

\* a call that selected the third variant past a variant of weight 0
C1_Witness ==
    /\ ValidTable
    /\ NumDeclared = 3
    /\ DeclWeight(2) = 0
    /\ last.op = "generate_random"
    /\ last.ok
    /\ last.val.variant = 2

\* C2: the share of a variant is its weight over the total: of the values in
\* [0, total) exactly weight-many select the variant, none for weight 0; a
\* call never returns a variant of weight 0.
C2_WeightShare ==
    ValidTable =>
        /\ TotalWeight(decl) = DeclTotal
        /\ \A i \in 1..NumDeclared :
              Cardinality({v \in 0..(DeclTotal - 1) :
                              Walk(VariantWeights(decl), v) = i - 1})
                  = DeclWeight(i)
        /\ Selected => last.ok /\ DeclWeight(last.val.variant + 1) > 0

\* weights 2, 1 and a default 1: a call drew 1 and selected the first variant
C2_Witness ==
    /\ decl = <<<<2>>, <<1>>, <<>>>>
    /\ last.op = "generate_random"
    /\ last.ok
    /\ last.trace[1].value = 1
    /\ last.val.variant = 0

\* C3: when every weight is zero, generate_random panics: it returns no value
\* and draws nothing.
C3_AllZeroAborts ==
    (/\ \A i \in 1..NumDeclared : DeclWeight(i) = 0
     /\ Selected)
        => ~last.ok /\ last.trace = <<>>

\* generate_random panicked on the weights 0, 0
C3_Witness ==
    /\ decl = <<<<0>>, <<0>>>>
    /\ last.op = "generate_random"
    /\ ~last.ok

\* C4 as claimed: a negative weight is found out when generate_random is
\* called: the enum with the negative weight has a generate_random, and
\* its call panics.
C4_NegativeAborts ==
    HasNegative =>
        /\ code # "error"
        /\ Selected => ~last.ok

\* C4 as amended: a negative weight is found out when the derive macro
\* expands: variant_weight panics on it, so the enum never has a
\* generate_random, no call is made on it and no value of it is generated.
C4_NegativeRejected ==
    HasNegative =>
        /\ code # "derived"
        /\ last = NoCall
        /\ ref = NoCall

\* the derive failed on a table with a negative weight and a positive total
C4_Witness ==
    /\ HasNegative
    /\ DeclTotal > 0
    /\ code = "error"

\* C5: generate_random_variant with an index that has no arm, on a valid
\* table, returns what one generate_random call returns: it falls back once,
\* draws the selection from [0, total) and returns the variant holding it.
C5_FallbackOnce ==
    (/\ ValidTable
     /\ last.op = "generate_random_variant"
     /\ last.arg >= NumDeclared)
        => /\ last.ok
           /\ last.fb = 1
           /\ last.val.variant \in 0..(NumDeclared - 1)
           /\ last.trace[1].kind = "select"
           /\ last.trace[1].bound = DeclTotal
           /\ last.val.variant + 1 \in Holding(last.trace[1].value)
           /\ Len(last.trace) = 1 + Len(VariantFields(last.ty, last.val.variant))

\* index 99 on three variants returned a variant
C5_Witness ==
    /\ ValidTable
    /\ NumDeclared = 3
    /\ last.op = "generate_random_variant"
    /\ last.arg = 99
    /\ last.ok
    /\ last.val.variant = 2

\* C6: num_variants is the number of declared variants; variant_name is the
\* identifier of the variant at a declared index and "" at any other.
C6_Names ==
    /\ last.op = "num_variants" => last.val = NumDeclared
    /\ last.op = "variant_name" =>
          /\ last.ok
          /\ last.arg < NumDeclared => last.val = VariantIdents[last.arg + 1]
          /\ last.arg >= NumDeclared => last.val = ""

\* variant_name of the first index past the declared ones returned ""
C6_Witness ==
    /\ NumDeclared = 3
    /\ last.op = "variant_name"
    /\ last.arg = 3
    /\ last.val = ""

\* the length a Vec, HashSet or HashMap call drew
DrawnLen == last.trace[1].value

\* the draws after the length draw
ElementDraws == SubSeq(last.trace, 2, Len(last.trace))

\* the elements generated: the first place on the path of each later draw
ElementsDrawn == {ElementDraws[j].path[1] : j \in 1..Len(ElementDraws)}

\* the last entry (from 0) of a HashMap of scalars generated with key k
LastEntry(k) ==
    CHOOSE i \in 0..(DrawnLen - 1) :
        /\ ScalarVal(last.trace[2 * i + 2]) = k
        /\ \A j \in (i + 1)..(DrawnLen - 1) : ScalarVal(last.trace[2 * j + 2]) # k

\* C8: a Vec, HashSet or HashMap draws its length from [0, 8) first and then
\* generates exactly that many elements.  A Vec holds them in the order
\* generated; a HashSet holds the distinct ones and a HashMap the last value
\* generated for each key, so their sizes are at most the length; length 0
\* gives an empty container and no inner call.
C8_BoundedContainers ==
    (last.op = "generate_random" /\ Kind(last.ty) \in {"vec", "hashset", "hashmap"})
        => /\ last.ok
           /\ last.trace[1].kind = "len"
           /\ last.trace[1].path = <<>>
           /\ last.trace[1].bound = 8
           /\ DrawnLen \in 0..7
           /\ ElementsDrawn = 0..(DrawnLen - 1)
           /\ DrawnLen = 0 => Len(last.trace) = 1
           /\ Kind(last.ty) = "vec" =>
                 /\ Len(last.val) = DrawnLen
                 /\ Params(last.ty)[1] \in Scalars =>
                       \A i \in 1..DrawnLen :
                           last.val[i] = ScalarVal(last.trace[i + 1])
           /\ Kind(last.ty) = "hashset" =>
                 /\ Cardinality(last.val) <= DrawnLen
                 /\ DrawnLen = 0 => last.val = {}
                 /\ Params(last.ty)[1] \in Scalars =>
                       last.val = {ScalarVal(last.trace[i + 1]) : i \in 1..DrawnLen}
           /\ Kind(last.ty) = "hashmap" =>
                 /\ Cardinality(DOMAIN last.val) <= DrawnLen
                 /\ DrawnLen = 0 => DOMAIN last.val = {}
                 /\ Params(last.ty)[2] \in Scalars =>
                       /\ DOMAIN last.val =
                              {ScalarVal(last.trace[2 * i + 2]) : i \in 0..(DrawnLen - 1)}
                       /\ \A k \in DOMAIN last.val :
                              last.val[k] = ScalarVal(last.trace[2 * LastEntry(k) + 3])

\* a HashMap<bool, u8> drew length 3 and holds 2 entries: a key was generated
\* twice and holds the later value, not the earlier
C8_Witness ==
    /\ Generated("hashmap")
    /\ Params(last.ty) = <<BoolT, U8T>>
    /\ DrawnLen = 3
    /\ Cardinality(DOMAIN last.val) = 2
    /\ \E i \in 0..1 : \E j \in (i + 1)..2 :
          /\ last.trace[2 * i + 2].value = last.trace[2 * j + 2].value
          /\ last.val[ScalarVal(last.trace[2 * j + 2])] = last.trace[2 * j + 3].value
          /\ last.trace[2 * i + 3].value # last.trace[2 * j + 3].value

\* C9: Option<T> draws one boolean first.  On false the value is None and
\* nothing else is drawn: the rng is one step on.  On true the value is
\* Some(v), v generated from the rng state right after the boolean.
C9_OptionDraws ==
    Generated("option") =>
        /\ last.ok
        /\ last.trace[1] =
               DrawRec(<<>>, "bool", 0, last.trace[1].value, last.rng0, 1)
        /\ last.trace[1].value = 0 =>
               /\ last.val = <<>>
               /\ Len(last.trace) = 1
               /\ last.rng = Step(last.rng0)
        /\ last.trace[1].value = 1 =>
               /\ Len(last.val) = 1
               /\ Len(last.trace) > 1
               /\ last.trace[2].at = After(last.trace[1])
               /\ Gen(Params(last.ty)[1], Step(last.rng0), <<0>>) =
                      Outcome(TRUE, last.val[1], last.rng,
                              SubSeq(last.trace, 2, Len(last.trace)), last.fb)

\* an Option<(u8, bool)> came out None after one draw
C9_Witness ==
    /\ Generated("option")
    /\ Params(last.ty)[1] = TupleT(<<U8T, BoolT>>)
    /\ last.val = <<>>
    /\ Len(last.trace) = 1
    /\ last.rng = Step(last.rng0)

\* the number of select draws of the enum itself among the draws of a call
OwnSelects ==
    Cardinality({j \in 1..Len(last.trace) :
                    last.trace[j].kind = "select" /\ last.trace[j].path = <<>>})

\* C10: the draws of a call are made one after the other on the rng, each
\* from the state the one before left, and in the order of the components:
\* a type's own draw before those of its components, component k before
\* component k + 1.  An enum draws its selection from [0, total) once, first,
\* and then only the fields of the selected variant, in order.
C10_DrawOrder ==
    last.op = "generate_random" =>
        /\ last.ok
        /\ \A j \in 1..Len(last.trace) :
              last.trace[j].at =
                  IF j = 1 THEN last.rng0 ELSE After(last.trace[j - 1])
        /\ last.rng =
              IF last.trace = <<>> THEN last.rng0
              ELSE After(last.trace[Len(last.trace)])
        /\ \A j \in 1..(Len(last.trace) - 1) :
              PathLE(last.trace[j].path, last.trace[j + 1].path)
        /\ Kind(last.ty) \in {"tuple", "struct", "array", "range", "rangeinclusive"} =>
              Len(last.val) = IF Kind(last.ty) \in {"tuple", "struct"}
                              THEN Len(Params(last.ty))
                              ELSE IF Kind(last.ty) = "array" THEN Length(last.ty)
                              ELSE 2
        /\ Kind(last.ty) = "enum" =>
              /\ last.trace[1].kind = "select"
              /\ last.trace[1].path = <<>>
              /\ last.trace[1].bound = DeclTotal
              /\ OwnSelects = 1
              /\ Len(last.trace) = 1 + Len(VariantFields(last.ty, last.val.variant))
              /\ \A j \in 2..Len(last.trace) :
                    last.trace[j].path = <<last.val.variant, j - 2>>

\* a tuple of the enum and a pair: the enum selected E(u8, bool), five draws
C10_Witness ==
    /\ Generated("tuple")
    /\ Params(last.ty) = <<EnumT(DocDecl), TupleT(<<U8T, BoolT>>)>>
    /\ last.val[1].variant = 4
    /\ Len(last.trace) = 5
    /\ last.trace[5].path = <<1, 1>>

====
